---- MODULE Spec2Model ----
(***************************************************************************)
(* Vocabulary resolution and classification engine of article-dryer:      *)
(* the word normalizer (WordProcessor), the vocabulary store              *)
(* (WordListLoader) and the classifier (WordLevelClassifier) together     *)
(* with the plugin entry point analyze_word_levels.                       *)
(*                                                                         *)
(* Words are TLA+ strings; a character is a string of length one.          *)
(***************************************************************************)
EXTENDS Integers, Sequences, FiniteSets, TLC

(***************************************************************************)
(* Python string primitives used by the source.                            *)
(***************************************************************************)
UpperChars == "ABCDEFGHIJKLMNOPQRSTUVWXYZ"

LowerChars == "abcdefghijklmnopqrstuvwxyz"

Digits == "0123456789"

CharsOf(s) == {SubSeq(s, i, i) : i \in 1..Len(s)}

Vowels == {"a", "e", "i", "o", "u"}

\* the characters the pattern \s matches and str.strip() removes
Whitespace == {" "}

\* the characters the pattern \w matches
WordChars == CharsOf(LowerChars) \cup CharsOf(UpperChars) \cup CharsOf(Digits) \cup {"_"}

KeptChars == WordChars \cup Whitespace


CharAt(s, i) == SubSeq(s, i, i)

UpperSet == CharsOf(UpperChars)

LowerSet == CharsOf(LowerChars)

\* str.lower() and str.upper() of one character
ToLower == [c \in UpperSet |->
               CharAt(LowerChars, CHOOSE j \in 1..Len(UpperChars) : CharAt(UpperChars, j) = c)]

ToUpper == [c \in LowerSet |->
               CharAt(UpperChars, CHOOSE j \in 1..Len(LowerChars) : CharAt(LowerChars, j) = c)]

LowerChar(c) == IF c \in UpperSet THEN ToLower[c] ELSE c

UpperChar(c) == IF c \in LowerSet THEN ToUpper[c] ELSE c

RECURSIVE lower(_)
lower(s) == IF Len(s) = 0 THEN "" ELSE LowerChar(CharAt(s, 1)) \o lower(Tail(s))

RECURSIVE upper(_)
upper(s) == IF Len(s) = 0 THEN "" ELSE UpperChar(CharAt(s, 1)) \o upper(Tail(s))

RECURSIVE rstrip(_, _)
rstrip(s, chars) ==
    IF Len(s) > 0 /\ CharAt(s, Len(s)) \in chars
    THEN rstrip(SubSeq(s, 1, Len(s) - 1), chars)
    ELSE s

RECURSIVE lstrip(_, _)
lstrip(s, chars) ==
    IF Len(s) > 0 /\ CharAt(s, 1) \in chars THEN lstrip(Tail(s), chars) ELSE s

strip(s) == lstrip(rstrip(s, Whitespace), Whitespace)

\* str.replace(old, new) for a one-character old
RECURSIVE replace(_, _, _)
replace(s, old, new) ==
    IF Len(s) = 0 THEN ""
    ELSE (IF CharAt(s, 1) = old THEN new ELSE CharAt(s, 1)) \o replace(Tail(s), old, new)

\* dict.get(key, default)
Get(d, key, default) == IF key \in DOMAIN d THEN d[key] ELSE default

endswith(s, suf) ==
    Len(s) >= Len(suf) /\ SubSeq(s, Len(s) - Len(suf) + 1, Len(s)) = suf

\* re.sub(r'[^\w\s]', '', s)
RECURSIVE strip_punctuation(_)
strip_punctuation(s) ==
    IF Len(s) = 0 THEN ""
    ELSE (IF CharAt(s, 1) \in KeptChars THEN CharAt(s, 1) ELSE "")
         \o strip_punctuation(Tail(s))

(***************************************************************************)
(* WordProcessor: the lookup tables.                                       *)
(***************************************************************************)
contractions_map ==
    ("aren't" :> "are not") @@
    ("can't" :> "cannot") @@
    ("couldn't" :> "could not") @@
    ("didn't" :> "did not") @@
    ("doesn't" :> "does not") @@
    ("don't" :> "do not") @@
    ("hadn't" :> "had not") @@
    ("hasn't" :> "has not") @@
    ("haven't" :> "have not") @@
    ("he'd" :> "he would") @@
    ("he'll" :> "he will") @@
    ("he's" :> "he is") @@
    ("i'd" :> "i would") @@
    ("i'll" :> "i will") @@
    ("i'm" :> "i am") @@
    ("i've" :> "i have") @@
    ("isn't" :> "is not") @@
    ("it's" :> "it is") @@
    ("let's" :> "let us") @@
    ("mightn't" :> "might not") @@
    ("mustn't" :> "must not") @@
    ("shan't" :> "shall not") @@
    ("she'd" :> "she would") @@
    ("she'll" :> "she will") @@
    ("she's" :> "she is") @@
    ("shouldn't" :> "should not") @@
    ("that's" :> "that is") @@
    ("there's" :> "there is") @@
    ("they'd" :> "they would") @@
    ("they'll" :> "they will") @@
    ("they're" :> "they are") @@
    ("they've" :> "they have") @@
    ("we'd" :> "we would") @@
    ("we're" :> "we are") @@
    ("we've" :> "we have") @@
    ("weren't" :> "were not") @@
    ("what'll" :> "what will") @@
    ("what're" :> "what are") @@
    ("what's" :> "what is") @@
    ("what've" :> "what have") @@
    ("where's" :> "where is") @@
    ("who'd" :> "who would") @@
    ("who'll" :> "who will") @@
    ("who're" :> "who are") @@
    ("who's" :> "who is") @@
    ("who've" :> "who have") @@
    ("won't" :> "will not") @@
    ("wouldn't" :> "would not") @@
    ("you'd" :> "you would") @@
    ("you'll" :> "you will") @@
    ("you're" :> "you are") @@
    ("you've" :> "you have") @@
    ("ain't" :> "am not") @@
    ("could've" :> "could have") @@
    ("gonna" :> "going to") @@
    ("gotta" :> "got to") @@
    ("i'ma" :> "i am going to") @@
    ("might've" :> "might have") @@
    ("must've" :> "must have") @@
    ("should've" :> "should have") @@
    ("that'd" :> "that would") @@
    ("that'll" :> "that will") @@
    ("there'd" :> "there would") @@
    ("there'll" :> "there will") @@
    ("they'd've" :> "they would have") @@
    ("we'd've" :> "we would have") @@
    ("would've" :> "would have") @@
    ("y'all" :> "you all") @@
    ("y'all'd" :> "you all would") @@
    ("y'all'd've" :> "you all would have")

abbreviations_map ==
    ("dr." :> "doctor") @@
    ("mr." :> "mister") @@
    ("mrs." :> "missus") @@
    ("ms." :> "miss") @@
    ("prof." :> "professor") @@
    ("rev." :> "reverend") @@
    ("col." :> "colonel") @@
    ("gen." :> "general") @@
    ("lt." :> "lieutenant") @@
    ("sgt." :> "sergeant") @@
    ("capt." :> "captain") @@
    ("cmdr." :> "commander") @@
    ("govt." :> "government") @@
    ("dept." :> "department") @@
    ("univ." :> "university") @@
    ("corp." :> "corporation") @@
    ("inc." :> "incorporated") @@
    ("co." :> "company") @@
    ("ltd." :> "limited") @@
    ("approx." :> "approximately") @@
    ("appt." :> "appointment") @@
    ("apt." :> "apartment") @@
    ("assn." :> "association") @@
    ("asst." :> "assistant") @@
    ("avg." :> "average") @@
    ("bldg." :> "building") @@
    ("blvd." :> "boulevard") @@
    ("est." :> "established") @@
    ("etc." :> "etcetera") @@
    ("exec." :> "executive") @@
    ("fig." :> "figure") @@
    ("hrs." :> "hours") @@
    ("info." :> "information") @@
    ("intl." :> "international") @@
    ("jr." :> "junior") @@
    ("min." :> "minutes") @@
    ("misc." :> "miscellaneous") @@
    ("mtg." :> "meeting") @@
    ("natl." :> "national") @@
    ("orig." :> "original") @@
    ("pres." :> "president") @@
    ("ref." :> "reference") @@
    ("sec." :> "second") @@
    ("sr." :> "senior") @@
    ("yr." :> "year") @@
    ("u.s.a." :> "united states of america") @@
    ("u.k." :> "united kingdom") @@
    ("e.g." :> "for example") @@
    ("i.e." :> "that is") @@
    ("nasa" :> "national aeronautics and space administration") @@
    ("nato" :> "north atlantic treaty organization") @@
    ("un" :> "united nations") @@
    ("eu" :> "european union") @@
    ("fbi" :> "federal bureau of investigation") @@
    ("cia" :> "central intelligence agency") @@
    ("ceo" :> "chief executive officer") @@
    ("cfo" :> "chief financial officer") @@
    ("cto" :> "chief technology officer") @@
    ("hr" :> "human resources") @@
    ("id" :> "identification") @@
    ("it" :> "information technology") @@
    ("tv" :> "television") @@
    ("pc" :> "personal computer") @@
    ("asap" :> "as soon as possible")

slang_map ==
    ("lol" :> "laugh out loud") @@
    ("brb" :> "be right back") @@
    ("btw" :> "by the way") @@
    ("fyi" :> "for your information") @@
    ("idk" :> "i do not know") @@
    ("tbh" :> "to be honest") @@
    ("imo" :> "in my opinion") @@
    ("imho" :> "in my honest opinion") @@
    ("thx" :> "thanks") @@
    ("ty" :> "thank you") @@
    ("pls" :> "please") @@
    ("plz" :> "please") @@
    ("rn" :> "right now") @@
    ("yep" :> "yes") @@
    ("nope" :> "no") @@
    ("omg" :> "oh my goodness") @@
    ("wtf" :> "what the heck") @@
    ("rofl" :> "rolling on floor laughing") @@
    ("fomo" :> "fear of missing out") @@
    ("lemme" :> "let me") @@
    ("gimme" :> "give me") @@
    ("wanna" :> "want to") @@
    ("dunno" :> "do not know") @@
    ("kinda" :> "kind of") @@
    ("sorta" :> "sort of") @@
    ("outta" :> "out of") @@
    ("hafta" :> "have to") @@
    ("tryna" :> "trying to") @@
    ("shoulda" :> "should have") @@
    ("coulda" :> "could have") @@
    ("woulda" :> "would have") @@
    ("ya" :> "you") @@
    ("goin" :> "going") @@
    ("cuz" :> "because") @@
    ("cause" :> "because") @@
    ("bout" :> "about") @@
    ("ima" :> "i am going to") @@
    ("tonite" :> "tonight") @@
    ("lite" :> "light") @@
    ("thru" :> "through") @@
    ("nite" :> "night") @@
    ("tho" :> "though") @@
    ("luv" :> "love") @@
    ("em" :> "them") @@
    ("bro" :> "brother") @@
    ("ur" :> "your") @@
    ("u" :> "you") @@
    ("r" :> "are") @@
    ("n" :> "and") @@
    ("2" :> "to") @@
    ("4" :> "for") @@
    ("gr8" :> "great") @@
    ("l8" :> "late") @@
    ("l8r" :> "later") @@
    ("b4" :> "before") @@
    ("m8" :> "mate") @@
    ("str8" :> "straight")

(***************************************************************************)
(* WordProcessor: the inflection rules.  A rule (pre, suf, rep) stands for *)
(* the pattern  (<pre>)suf$  with replacement  \1 rep : pre is a sequence  *)
(* of character classes, each [neg |-> FALSE, chars |-> S] for [S] or      *)
(* [neg |-> TRUE, chars |-> S] for [^S]; the characters matched by pre are *)
(* kept.  An alternation inside one pattern is listed as adjacent rules.   *)
(***************************************************************************)
In(S) == [neg |-> FALSE, chars |-> S]

NotIn(S) == [neg |-> TRUE, chars |-> S]

Rule(pre, suf, rep) == [pre |-> pre, suf |-> suf, rep |-> rep]

plural_to_singular == <<
    Rule(<<NotIn(Vowels)>>, "ies", "y"),
    Rule(<<In(Vowels)>>, "ys", "y"),
    Rule(<<>>, "sses", "ss"),
    Rule(<<In({"s", "x", "z"})>>, "es", ""),
    Rule(<<In({"c", "s"})>>, "hes", "h"),
    Rule(<<NotIn({"s"})>>, "ves", "fe"),
    Rule(<<>>, "ves", "f"),
    Rule(<<>>, "i", "us"),
    Rule(<<>>, "ae", "a"),
    Rule(<<>>, "a", "on"),
    Rule(<<>>, "children", "child"),
    Rule(<<>>, "oxen", "ox"),
    Rule(<<In({"m", "l"})>>, "ice", "ouse"),
    Rule(<<>>, "feet", "foot"),
    Rule(<<>>, "teeth", "tooth"),
    Rule(<<>>, "geese", "goose"),
    Rule(<<>>, "men", "man"),
    Rule(<<>>, "women", "woman"),
    Rule(<<>>, "people", "person"),
    Rule(<<>>, "s", "") >>

verb_to_base == <<
    Rule(<<NotIn(Vowels)>>, "ied", "y"),
    Rule(<<In(Vowels)>>, "ied", "y"),
    Rule(<<NotIn({"e"})>>, "ing", ""),
    Rule(<<>>, "ying", "y"),
    Rule(<<>>, "eing", "e"),
    Rule(<<NotIn({"e"})>>, "ed", ""),
    Rule(<<>>, "eed", "ee"),
    Rule(<<>>, "ies", "y"),
    Rule(<<NotIn({"a", "i", "o", "u"})>>, "es", "e"),
    Rule(<<In(Vowels), In({"p", "s", "t"})>>, "s", ""),
    Rule(<<>>, "is", "be"),
    Rule(<<>>, "are", "be"),
    Rule(<<>>, "was", "be"),
    Rule(<<>>, "were", "be"),
    Rule(<<>>, "am", "be"),
    Rule(<<>>, "been", "be"),
    Rule(<<>>, "has", "have"),
    Rule(<<>>, "had", "have"),
    Rule(<<>>, "does", "do"),
    Rule(<<>>, "did", "do"),
    Rule(<<>>, "said", "say"),
    Rule(<<>>, "made", "make"),
    Rule(<<>>, "went", "go"),
    Rule(<<>>, "taken", "take"),
    Rule(<<>>, "took", "take"),
    Rule(<<>>, "gave", "give"),
    Rule(<<>>, "given", "give"),
    Rule(<<>>, "came", "come"),
    Rule(<<>>, "became", "become"),
    Rule(<<>>, "saw", "see"),
    Rule(<<>>, "seen", "see"),
    Rule(<<>>, "knew", "know"),
    Rule(<<>>, "known", "know") >>

comparative_to_base == <<
    Rule(<<NotIn(Vowels)>>, "ier", "y"),
    Rule(<<In(Vowels)>>, "ier", "y"),
    Rule(<<NotIn(Vowels)>>, "iest", "y"),
    Rule(<<In(Vowels)>>, "iest", "y"),
    Rule(<<In({"a", "e", "i", "o", "u", "l", "m", "n", "r"})>>, "er", "e"),
    Rule(<<NotIn({"e"})>>, "er", ""),
    Rule(<<In({"a", "e", "i", "o", "u", "l", "m", "n", "r"})>>, "est", "e"),
    Rule(<<NotIn({"e"})>>, "est", ""),
    Rule(<<>>, "better", "good"),
    Rule(<<>>, "best", "good"),
    Rule(<<>>, "worse", "bad"),
    Rule(<<>>, "worst", "bad"),
    Rule(<<>>, "more", "many"),
    Rule(<<>>, "most", "many"),
    Rule(<<>>, "less", "little"),
    Rule(<<>>, "least", "little") >>

InClass(c, class) == IF class.neg THEN c \notin class.chars ELSE c \in class.chars

\* re.search(pattern, word)
rule_matches(word, rule) ==
    LET n == Len(word)
        k == Len(rule.suf)
        p == Len(rule.pre)
    IN  /\ n >= k + p
        /\ SubSeq(word, n - k + 1, n) = rule.suf
        /\ \A i \in 1..p : InClass(CharAt(word, n - k - p + i), rule.pre[i])

\* re.sub(pattern, replacement, word), for a word the pattern matches
rule_apply(word, rule) == SubSeq(word, 1, Len(word) - Len(rule.suf)) \o rule.rep

\* the loop without its break: the last matching rule is the one that counts
apply_last_match(word, rules) ==
    IF \E i \in 1..Len(rules) : rule_matches(word, rules[i])
    THEN LET i == CHOOSE j \in 1..Len(rules) :
                      /\ rule_matches(word, rules[j])
                      /\ \A h \in (j + 1)..Len(rules) : ~rule_matches(word, rules[h])
         IN  rule_apply(word, rules[i])
    ELSE word

\* one "for pattern, replacement in rules: if re.search: re.sub; break" loop
apply_first_match(word, rules) ==
    IF \E i \in 1..Len(rules) : rule_matches(word, rules[i])
    THEN LET i == CHOOSE j \in 1..Len(rules) :
                      /\ rule_matches(word, rules[j])
                      /\ \A h \in 1..(j - 1) : ~rule_matches(word, rules[h])
         IN  rule_apply(word, rules[i])
    ELSE word

\* "if word != original_word: return word" after each of the three loops
first_changed(original_word, plural, verb, comparative) ==
    IF plural # original_word THEN plural
    ELSE IF verb # original_word THEN verb
    ELSE comparative

_normalize_inflection(word) ==
    first_changed(word,
                  apply_first_match(word, plural_to_singular),
                  apply_first_match(word, verb_to_base),
                  apply_first_match(word, comparative_to_base))

\* the steps of normalize_word, each on the word the step before it left
expand_abbreviation(word) ==
    Get(abbreviations_map, word, Get(abbreviations_map, rstrip(word, {"."}), word))

expand_contraction(word) == Get(contractions_map, word, word)

expand_slang(word) == Get(slang_map, word, word)

strip_possessive(word) ==
    IF endswith(word, "'s") \/ endswith(word, "'")
    THEN rstrip(rstrip(word, {"'", "s"}), {"'"})
    ELSE word

normalize_word(word) ==
    IF Len(word) = 0 THEN ""
    ELSE strip(strip_punctuation(_normalize_inflection(replace(
             strip_possessive(expand_slang(expand_contraction(
                 expand_abbreviation(strip(lower(word)))))),
             "-", " "))))

(***************************************************************************)
(* The words the specifications below feed to the engine, and their        *)
(* normalized forms computed once: Normalized(word) is                     *)
(* self.word_processor.normalize_word(word).                               *)
(***************************************************************************)
ResolveTokens ==
    {"Hello", "hello", "ran", "happily", "nationally", "nationwide", "zyx", "happiness"}

AnalyzeTokens == {"Hello", "hello", "zyx", "happiness"}

\* the words of the data files used below
FileTokens ==
    {"hello", "hellos", " Hellos ", "Ice Cream", "icecream", "zyx", "run",
     "Zyx", "zyxs", "Ombre", "cat", "Dog", "dog",
     "happy", "happiness", "nation", "national"}

Vocabulary ==
    LET given == ResolveTokens \cup AnalyzeTokens \cup FileTokens
    IN  given \cup {lower(w) : w \in given} \cup {lower(strip(w)) : w \in given}

NormalizedForms == [w \in Vocabulary |-> normalize_word(w)]

Normalized(word) ==
    IF word \in Vocabulary THEN NormalizedForms[word] ELSE normalize_word(word)

(***************************************************************************)
(* Python values: None, dict.get, and dicts that keep insertion order      *)
(* (a sequence of <<key, value>> pairs with distinct keys).                *)
(***************************************************************************)
None == "<None>"

EmptyMap == [k \in {} |-> k]

Put(map, k, v) == [x \in DOMAIN map \cup {k} |-> IF x = k THEN v ELSE map[x]]

DictKeys(d) == {d[i][1] : i \in DOMAIN d}

DictGet(d, k) == d[CHOOSE i \in DOMAIN d : d[i][1] = k][2]

DictSet(d, k, v) ==
    IF k \in DictKeys(d)
    THEN [i \in DOMAIN d |-> IF d[i][1] = k THEN <<k, v>> ELSE d[i]]
    ELSE Append(d, <<k, v>>)

RECURSIVE DictUpdate(_, _)
DictUpdate(d, other) ==
    IF other = <<>> THEN d
    ELSE DictUpdate(DictSet(d, Head(other)[1], Head(other)[2]), Tail(other))

(***************************************************************************)
(* WordLists: the vocabulary index (word_map) and the level buckets (cefr).*)
(***************************************************************************)
CefrKeys == {"a1", "a2", "b1", "b2", "c1", "c2", "unknown"}

WordLists == [word_map |-> EmptyMap, cefr |-> [l \in CefrKeys |-> {}]]

AddToBucket(wl, level, word) ==
    [wl EXCEPT !.cefr[level] = @ \cup {word}]

(***************************************************************************)
(* WordListLoader                                                          *)
(***************************************************************************)
\* word_exists_in_any_form checking the base form only
word_exists_base_form_only(word, wl) == lower(word) \in DOMAIN wl.word_map

word_exists_in_any_form(word, wl) ==
    LET normalized_form == Normalized(word)
        normalized_no_spaces == replace(normalized_form, " ", "")
    IN  \/ lower(word) \in DOMAIN wl.word_map
        \/ normalized_form \in DOMAIN wl.word_map
        \/ \E vocab_word \in DOMAIN wl.word_map :
               replace(vocab_word, " ", "") = normalized_no_spaces

add_word_forms_to_map(word, word_value, wl) ==
    LET word_lower == lower(word)
        normalized_form == Normalized(word)
        m1 == Put(wl.word_map, word_lower, word_value)
    IN  [wl EXCEPT !.word_map =
            IF normalized_form # "" /\ normalized_form # word_lower
            THEN Put(m1, normalized_form, word_value)
            ELSE m1]

\* A file of the data directory: absent, unreadable, or holding a list.
Missing == [state |-> "missing"]

Corrupt == [state |-> "corrupt"]

File(data) == [state |-> "ok", data |-> data]

\* The loop body shared by load_oxford_words and load_user_words, over the
\* entries of a parsed JSON list.  raised: an entry made the body raise
\* (a level that is not a string), which ends the loop.
RECURSIVE load_json_entries(_, _)
load_json_entries(data, wl) ==
    IF data = <<>> THEN [wl |-> wl, raised |-> FALSE]
    ELSE
    LET entry == Head(data)
        word_value == IF "value" \in DOMAIN entry THEN entry.value ELSE entry
        word == Get(word_value, "word", "")
        raw_level == Get(word_value, "level", "")
        level == lower(raw_level)
    IN  IF "value" \notin DOMAIN entry /\ "word" \notin DOMAIN entry
        THEN load_json_entries(Tail(data), wl)
        ELSE IF raw_level = None
        THEN [wl |-> wl, raised |-> TRUE]
        ELSE IF word = "" \/ level \notin DOMAIN wl.cefr
        THEN load_json_entries(Tail(data), wl)
        ELSE load_json_entries(Tail(data),
                 add_word_forms_to_map(word, word_value,
                     AddToBucket(wl, level, lower(word))))

\* raised: the exception load_oxford_words re-raises to load_word_lists
load_oxford_words(file, wl) ==
    IF file.state = "missing" THEN [wl |-> wl, raised |-> FALSE]
    ELSE IF file.state = "corrupt" THEN [wl |-> wl, raised |-> TRUE]
    ELSE load_json_entries(file.data, wl)

RECURSIVE load_epv_rows(_, _)
load_epv_rows(rows, wl) ==
    IF rows = <<>> THEN wl
    ELSE
    LET row == Head(rows)
        word == lower(strip(row[1]))
        level == lower(strip(row[2]))
        word_value == [word |-> word, level |-> upper(level), source |-> "epv"]
    IN  IF Len(row) < 2 THEN load_epv_rows(Tail(rows), wl)
        ELSE IF level \notin DOMAIN wl.cefr THEN load_epv_rows(Tail(rows), wl)
        ELSE IF word_exists_in_any_form(word, wl) THEN load_epv_rows(Tail(rows), wl)
        ELSE load_epv_rows(Tail(rows),
                 add_word_forms_to_map(word, word_value,
                     AddToBucket(wl, level, lower(word))))

\* every exception is logged and swallowed
load_epv_words(file, wl) ==
    IF file.state = "ok" THEN load_epv_rows(file.data, wl) ELSE wl

\* every exception is logged and swallowed; the entries read before it stay
load_user_words(file, wl) ==
    IF file.state = "ok" THEN load_json_entries(file.data, wl).wl ELSE wl

get_fallback_lists ==
    LET basic_words ==
            ("hello" :> [word |-> "hello", level |-> "A1"]) @@
            ("world" :> [word |-> "world", level |-> "A1"]) @@
            ("simple" :> [word |-> "simple", level |-> "A2"]) @@
            ("basic" :> [word |-> "basic", level |-> "A2"]) @@
            ("intermediate" :> [word |-> "intermediate", level |-> "B1"]) @@
            ("progress" :> [word |-> "progress", level |-> "B1"]) @@
            ("advanced" :> [word |-> "advanced", level |-> "B2"]) @@
            ("complex" :> [word |-> "complex", level |-> "B2"]) @@
            ("proficient" :> [word |-> "proficient", level |-> "C1"]) @@
            ("master" :> [word |-> "master", level |-> "C1"]) @@
            ("expert" :> [word |-> "expert", level |-> "C2"]) @@
            ("fluent" :> [word |-> "fluent", level |-> "C2"])
    IN  [word_map |-> basic_words,
         cefr |-> [l \in CefrKeys |->
                      {w \in DOMAIN basic_words : lower(basic_words[w].level) = l}]]

\* existing_dict of save_words_to_user_file: the entries of the file keyed by
\* lower-cased word, in the order of the file
RECURSIVE existing_dict(_)
\* existing_dict keyed by the words as the file spells them
existing_dict_case_sensitive(existing_data) ==
    IF existing_data = <<>> THEN <<>>
    ELSE LET entry == existing_data[Len(existing_data)]
             rest == existing_dict(SubSeq(existing_data, 1, Len(existing_data) - 1))
         IN  IF "word" \in DOMAIN entry
             THEN DictSet(rest, entry.word, entry)
             ELSE rest

existing_dict(existing_data) ==
    IF existing_data = <<>> THEN <<>>
    ELSE LET entry == existing_data[Len(existing_data)]
             rest == existing_dict(SubSeq(existing_data, 1, Len(existing_data) - 1))
         IN  IF "word" \in DOMAIN entry
             THEN DictSet(rest, lower(entry.word), entry)
             ELSE rest

\* The file save_words_to_user_file(words_data) leaves, given the file it
\* finds: the entries kept, updated by words_data.  No code path of the
\* loader, the classifier or the plugins calls it.
save_words_to_user_file(file, words_data) ==
    LET existing_data == IF file.state = "ok" THEN file.data ELSE <<>>
        lowered == [i \in DOMAIN words_data |->
                       <<lower(words_data[i][1]), words_data[i][2]>>]
        updated == DictUpdate(existing_dict(existing_data), lowered)
    IN  File([i \in DOMAIN updated |-> updated[i][2]])

(***************************************************************************)
(* WordProcessor.process_word(word, form): the morphological-analysis      *)
(* capability (lemmatizer, stemmer, sub-word tokenizer) that               *)
(* WordLevelClassifier calls.  WordProcessor.py does not define it; it is  *)
(* modelled from the specification as a deterministic, pure capability:    *)
(* a table of the forms it knows, and the lower-cased word otherwise.      *)
(***************************************************************************)
lemma_forms ==
    ("ran" :> "run") @@
    ("happily" :> "happy")

stem_forms ==
    ("happily" :> "happi") @@
    ("happiness" :> "happi") @@
    ("happy" :> "happi") @@
    ("nationally" :> "nation") @@
    ("nationwide" :> "nationwid")

token_forms ==
    ("nationally" :> "national") @@
    ("nationwide" :> "nation")

process_word(word, form) ==
    LET w == lower(word)
        table == CASE form = "lemma" -> lemma_forms
                   [] form = "stem" -> stem_forms
                   [] form = "token" -> token_forms
    IN  IF w \in DOMAIN table THEN table[w] ELSE w

(***************************************************************************)
(* WordLevelClassifier                                                     *)
(***************************************************************************)
batch_size == 10

RecognizedLevels == {"a1", "a2", "b1", "b2", "c1", "c2"}

\* the unknown entry without the request for a remote classification
UnknownInfo_not_flagged(word) ==
    [word |-> word, level |-> "unknown", needs_llm_classification |-> FALSE]

UnknownInfo(word) ==
    [word |-> word, level |-> "unknown", needs_llm_classification |-> TRUE]

\* the chain "if form in self.word_map: return self.word_map[form]" over the
\* forms in the order they are tried
RECURSIVE first_hit(_, _, _)
first_hit(word, word_map, forms) ==
    IF forms = <<>> THEN UnknownInfo(word)
    ELSE IF Head(forms) \in DOMAIN word_map THEN word_map[Head(forms)]
    ELSE first_hit(word, word_map, Tail(forms))

\* the forms get_word_level tries, in its order
\* lookup_forms trying the stem before the lemma
lookup_forms_stem_first(normalized_word) ==
    << normalized_word,
       process_word(normalized_word, "stem"),
       process_word(normalized_word, "lemma"),
       process_word(normalized_word, "token") >>

lookup_forms(normalized_word) ==
    << normalized_word,
       process_word(normalized_word, "lemma"),
       process_word(normalized_word, "stem"),
       process_word(normalized_word, "token") >>

get_word_level(word, word_map) ==
    first_hit(word, word_map, lookup_forms(Normalized(word)))

\* A reply of the remote capability to one prompt: generate_text raised
\* ("raise"), or returned a text with no {...} block ("noblock"), with a block
\* that json.loads rejects ("badjson"), or with a JSON object ("json") whose
\* members are body, a sequence of <<key, value>> in the order of the text.
\* A value is JDict(fields) for a JSON object and JOther for any other value.
JDict(fields) == [isdict |-> TRUE, fields |-> fields]

JOther == [isdict |-> FALSE]

\* The remote capabilities considered: each is a deterministic function of
\* the batch it is asked about.
Capabilities ==
    {"raise", "noblock", "badjson", "shape", "null", "good", "lower", "mixed", "omit"}

Answer(level) == JDict([level |-> level, explanation |-> "because"])

Respond(remote, batch) ==
    CASE remote = "raise" -> [kind |-> "raise"]
      [] remote = "noblock" -> [kind |-> "noblock"]
      [] remote = "badjson" -> [kind |-> "badjson"]
      \* an object whose first member is not an object itself
      [] remote = "shape" ->
            [kind |-> "json",
             body |-> [i \in DOMAIN batch |->
                          <<batch[i], IF i = 1 THEN JOther ELSE Answer("B1")>>]]
      \* the last word's level is null
      [] remote = "null" ->
            [kind |-> "json",
             body |-> [i \in DOMAIN batch |->
                          <<batch[i], IF i = Len(batch)
                                      THEN JDict([level |-> None])
                                      ELSE Answer("B1")>>]]
      [] remote = "good" ->
            [kind |-> "json", body |-> [i \in DOMAIN batch |-> <<batch[i], Answer("B2")>>]]
      \* upper-case keys, lower-case levels
      [] remote = "lower" ->
            [kind |-> "json",
             body |-> [i \in DOMAIN batch |-> <<upper(batch[i]), Answer("b1")>>]]
      \* an unrecognized level for the first word, no level for the second, and
      \* a word nobody asked about
      [] remote = "mixed" ->
            [kind |-> "json",
             body |-> [i \in DOMAIN batch |->
                          <<batch[i],
                            IF i = 1 THEN Answer("X9")
                            ELSE IF i = 2 THEN JDict([explanation |-> "because"])
                            ELSE Answer("A2")>>]
                      \o << <<"zebra", Answer("C2")>> >>]
      \* the last word of the batch is left out
      [] remote = "omit" ->
            [kind |-> "json",
             body |-> [i \in 1..(Len(batch) - 1) |-> <<batch[i], Answer("C2")>>]]

DefaultInfo(word) == [word |-> lower(word), level |-> "C1", source |-> "default"]

RECURSIVE BatchDefault(_)
BatchDefault(words) ==
    IF words = <<>> THEN <<>>
    ELSE DictUpdate(<<<<lower(Head(words)), DefaultInfo(Head(words))>>>>,
                    BatchDefault(Tail(words)))

LowerWords(words) == {lower(words[i]) : i \in DOMAIN words}

\* the "Validate and format the result" loop; raised: data.get or .lower()
\* raised AttributeError (a value that is no object, a level that is null)
RECURSIVE format_results(_, _, _)
\* format_results without "if word.lower() in [w.lower() for w in words]"
format_results_unfiltered(body, words, formatted_results) ==
    IF body = <<>> THEN [raised |-> FALSE, results |-> formatted_results]
    ELSE IF ~Head(body)[2].isdict \/ Get(Head(body)[2].fields, "level", "") = None
    THEN [raised |-> TRUE, results |-> formatted_results]
    ELSE format_results(Tail(body), words,
             DictSet(formatted_results, lower(Head(body)[1]),
                     [word |-> lower(Head(body)[1]),
                      level |-> "C1",
                      explanation |-> "Level not recognized, defaulting to C1",
                      source |-> "llm"]))

format_results(body, words, formatted_results) ==
    IF body = <<>> THEN [raised |-> FALSE, results |-> formatted_results]
    ELSE
    LET word == Head(body)[1]
        data == Head(body)[2]
        raw_level == Get(data.fields, "level", "")
        level == lower(raw_level)
        info == IF level \in RecognizedLevels
                THEN [word |-> lower(word),
                      level |-> upper(raw_level),
                      explanation |-> Get(data.fields, "explanation", ""),
                      source |-> "llm"]
                ELSE [word |-> lower(word),
                      level |-> "C1",
                      explanation |-> "Level not recognized, defaulting to C1",
                      source |-> "llm"]
    IN  IF lower(word) \notin LowerWords(words)
        THEN format_results(Tail(body), words, formatted_results)
        ELSE IF ~data.isdict \/ raw_level = None
        THEN [raised |-> TRUE, results |-> formatted_results]
        ELSE format_results(Tail(body), words,
                            DictSet(formatted_results, lower(word), info))

\* the "except Exception" clause around the parsing of a JSON reply
except_default(words, r) ==
    IF r.raised
    THEN [raised |-> FALSE, results |-> BatchDefault(words)]
    ELSE [raised |-> FALSE, results |-> r.results]

\* raised: an exception leaves _classify_word_batch (none does: the whole
\* body is inside try/except Exception)
\* _classify_word_batch without its try/except
_classify_word_batch_unguarded(words, response) ==
    IF response.kind = "json"
    THEN format_results(response.body, words, <<>>)
    ELSE [raised |-> TRUE, results |-> <<>>]

_classify_word_batch(words, response) ==
    IF response.kind = "json"
    THEN except_default(words, format_results(response.body, words, <<>>))
    ELSE [raised |-> FALSE, results |-> BatchDefault(words)]

\* the "Update the word_map with the newly classified words" loop
RECURSIVE learn_results(_, _)
\* learn_results storing the C1 default in place of the entry it was given
learn_results_as_default(results, wl) ==
    IF results = <<>> THEN wl
    ELSE learn_results(Tail(results),
             [AddToBucket(wl, "c1", lower(Head(results)[1]))
                  EXCEPT !.word_map = Put(wl.word_map, lower(Head(results)[1]),
                                          DefaultInfo(Head(results)[1]))])

learn_results(results, wl) ==
    IF results = <<>> THEN wl
    ELSE
    LET word == Head(results)[1]
        data == Head(results)[2]
        level == lower(Get(data, "level", "unknown"))
        lemma == process_word(word, "lemma")
        stem == process_word(word, "stem")
        m1 == Put(wl.word_map, lower(word), data)
        m2 == IF lemma # lower(word) THEN Put(m1, lemma, data) ELSE m1
        m3 == IF stem # lower(word) /\ stem # lemma THEN Put(m2, stem, data) ELSE m2
    IN  IF level \in DOMAIN wl.cefr
        THEN learn_results(Tail(results),
                 [AddToBucket(wl, level, lower(word)) EXCEPT !.word_map = m3])
        ELSE learn_results(Tail(results), wl)

\* unknown_words[i:i+batch_size]
\* unknown_words[i:i+batch_size+1]
Slice_one_more(s, i) ==
    SubSeq(s, i + 1, IF i + batch_size + 1 < Len(s) THEN i + batch_size + 1 ELSE Len(s))

Slice(s, i) == SubSeq(s, i + 1, IF i + batch_size < Len(s) THEN i + batch_size ELSE Len(s))

\* One request: the batch sent, the reply of llm_client.generate_text to the
\* prompt built for it, and what _classify_word_batch returned (raised,
\* results).
call_record(batch, response) ==
    [batch |-> batch, response |-> response] @@ _classify_word_batch(batch, response)

request(remote, batch) == call_record(batch, Respond(remote, batch))

\* the "for i in range(0, len(unknown_words), batch_size)" loop, from offset i;
\* calls records each request made
RECURSIVE classify_batches(_, _, _, _, _)
update_results(unknown_words, i, remote, results, calls, call) ==
    IF call.raised
    THEN [raised |-> TRUE, results |-> results, calls |-> Append(calls, call)]
    ELSE classify_batches(unknown_words, i + batch_size, remote,
                          DictUpdate(results, call.results), Append(calls, call))

classify_batches(unknown_words, i, remote, results, calls) ==
    IF i >= Len(unknown_words)
    THEN [raised |-> FALSE, results |-> results, calls |-> calls]
    ELSE update_results(unknown_words, i, remote, results, calls,
                        request(remote, Slice(unknown_words, i)))

\* r: what the loop over the batches left
update_word_map(r, wl) ==
    IF r.raised
    THEN [raised |-> TRUE, results |-> <<>>, calls |-> r.calls, wl |-> wl]
    ELSE [raised |-> FALSE, results |-> r.results, calls |-> r.calls,
          wl |-> learn_results(r.results, wl)]

classify_unknown_words_with_llm(unknown_words, remote, wl) ==
    IF unknown_words = <<>>
    THEN [raised |-> FALSE, results |-> <<>>, calls |-> <<>>, wl |-> wl]
    ELSE update_word_map(classify_batches(unknown_words, 0, remote, <<>>, <<>>), wl)

(***************************************************************************)
(* WordLevelAnalyzerPlugin / TextLevelAnalyzerPlugin                       *)
(***************************************************************************)
\* the "First pass" loop of analyze_word_levels
RECURSIVE first_pass(_, _, _, _, _)
\* check_word sending every new word to the remote
check_word_always_unknown(words, skip_llm, word_map, result, unknown_words, word_lower, word_info) ==
    first_pass(Tail(words), skip_llm, word_map,
               DictSet(result, word_lower, word_info),
               IF ~skip_llm THEN Append(unknown_words, word_lower) ELSE unknown_words)

\* a word not seen before, and what get_word_level returned for it
check_word(words, skip_llm, word_map, result, unknown_words, word_lower, word_info) ==
    first_pass(Tail(words), skip_llm, word_map,
               DictSet(result, word_lower, word_info),
               IF lower(Get(word_info, "level", "")) = "unknown" /\ ~skip_llm
               THEN Append(unknown_words, word_lower)
               ELSE unknown_words)

\* first_pass keeping the case of the words
first_pass_case_sensitive(words, skip_llm, word_map, result, unknown_words) ==
    IF words = <<>> THEN [result |-> result, unknown_words |-> unknown_words]
    ELSE IF Head(words) \in DictKeys(result)
    THEN first_pass(Tail(words), skip_llm, word_map, result, unknown_words)
    ELSE check_word(words, skip_llm, word_map, result, unknown_words,
                    Head(words),
                    get_word_level(lower(Head(words)), word_map))

first_pass(words, skip_llm, word_map, result, unknown_words) ==
    IF words = <<>> THEN [result |-> result, unknown_words |-> unknown_words]
    ELSE IF lower(Head(words)) \in DictKeys(result)
    THEN first_pass(Tail(words), skip_llm, word_map, result, unknown_words)
    ELSE check_word(words, skip_llm, word_map, result, unknown_words,
                    lower(Head(words)),
                    get_word_level(lower(Head(words)), word_map))

\* the "Update results with LLM classifications" loop
RECURSIVE update_known(_, _)
update_known(result, llm_results) ==
    IF llm_results = <<>> THEN result
    ELSE LET word == Head(llm_results)[1]
             info == Head(llm_results)[2]
         IN  update_known(IF word \in DictKeys(result)
                          THEN DictSet(result, word, info)
                          ELSE result,
                          Tail(llm_results))

\* first: what the first pass left; llm: what classify_unknown_words_with_llm
\* returned and did
merge_llm_results(first, llm) ==
    [raised |-> llm.raised,
     result |-> update_known(first.result, llm.results),
     unknown_words |-> first.unknown_words,
     llm_results |-> llm.results,
     calls |-> llm.calls,
     wl |-> llm.wl]

\* the "Second pass"
second_pass(first, skip_llm, remote, wl) ==
    IF first.unknown_words # <<>> /\ ~skip_llm
    THEN merge_llm_results(first,
             classify_unknown_words_with_llm(first.unknown_words, remote, wl))
    ELSE [raised |-> FALSE,
          result |-> first.result,
          unknown_words |-> first.unknown_words,
          llm_results |-> <<>>,
          calls |-> <<>>,
          wl |-> wl]

analyze_word_levels(words, skip_llm, remote, wl) ==
    second_pass(first_pass(words, skip_llm, wl.word_map, <<>>, <<>>),
                skip_llm, remote, wl)

(***************************************************************************)
(* The state: the data directory, the loader, the classifier built on the  *)
(* loaded WordLists (the same word_map and cefr objects), the remote, and  *)
(* a record of the last call.                                              *)
(***************************************************************************)
VARIABLES
    oxford_file,    \* data/oxford-5000.json
    epv_file,       \* data/epv-deduped.csv
    user_file,      \* data/user_defined_words.json
    remote,         \* the llm_client the plugin was initialized with
    skip_llm,       \* the plugin's skip_llm flag
    load_pc,        \* position of plugin.initialize inside load_word_lists
    word_lists,     \* the WordLists being built, then used by the classifier
    cached,         \* loader.word_lists is set (to word_lists)
    after_oxford,   \* word_lists as load_oxford_words left it
    after_epv,      \* word_lists as load_epv_words left it
    op,             \* the last call made and what it returned
    instances,      \* the WordListLoader objects constructed so far
    runs,           \* how many times each source loader has run
    callers,        \* the tasks that call get_instance and load_word_lists
    saves,          \* the tasks that call save_words_to_user_file
    requests        \* the tasks that call analyze_word_levels on one plugin

vars == <<oxford_file, epv_file, user_file, remote, skip_llm, load_pc,
          word_lists, cached, after_oxford, after_epv, op,
          instances, runs, callers, saves, requests>>

NoOp == [kind |-> "none"]

NotYet == [reached |-> FALSE]

Snapshot(wl) == [reached |-> TRUE, wl |-> wl]

\* sequences over S of length at most n
SeqsUpTo(S, n) == UNION {[1..k -> S] : k \in 0..n}

\* a caller: where it is, and the WordLists load_word_lists returned to it
Caller(pc, got) == [pc |-> pc, got |-> got]

NoRuns == [oxford |-> 0, epv |-> 0, user |-> 0]

\* load_word_lists returns got to the caller that is running it
Return(cs, got) ==
    [c \in DOMAIN cs |-> IF cs[c].pc = "loading" THEN Caller("done", got) ELSE cs[c]]

\* plugin.initialize has obtained the loader and is entering load_word_lists
InitLoader ==
    /\ load_pc = "start"
    /\ word_lists = WordLists
    /\ cached = FALSE
    /\ after_oxford = NotYet
    /\ after_epv = NotYet
    /\ op = NoOp
    /\ instances = 1
    /\ runs = NoRuns
    /\ callers = [c \in {"plugin"} |-> Caller("loading", None)]
    /\ saves = EmptyMap
    /\ requests = EmptyMap

(***************************************************************************)
(* load_word_lists, in its three awaited steps.                            *)
(***************************************************************************)
LoadOxfordWords ==
    /\ load_pc = "start"
    /\ LET r == load_oxford_words(oxford_file, WordLists)
       IN  IF r.raised
           THEN \* except: return self.get_fallback_lists(), nothing cached
                /\ word_lists' = get_fallback_lists
                /\ load_pc' = "ready"
                /\ after_oxford' = NotYet
                /\ callers' = Return(callers, get_fallback_lists)
           ELSE /\ word_lists' = r.wl
                /\ load_pc' = "oxford"
                /\ after_oxford' = Snapshot(r.wl)
                /\ callers' = callers
    /\ runs' = [runs EXCEPT !.oxford = @ + 1]
    /\ UNCHANGED <<oxford_file, epv_file, user_file, remote, skip_llm, cached,
                   after_epv, op, instances, saves, requests>>

LoadEpvWords ==
    /\ load_pc = "oxford"
    /\ word_lists' = load_epv_words(epv_file, word_lists)
    /\ after_epv' = Snapshot(word_lists')
    /\ load_pc' = "epv"
    /\ runs' = [runs EXCEPT !.epv = @ + 1]
    /\ UNCHANGED <<oxford_file, epv_file, user_file, remote, skip_llm, cached,
                   after_oxford, op, instances, callers, saves, requests>>

LoadUserWords ==
    /\ load_pc = "epv"
    /\ word_lists' = load_user_words(user_file, word_lists)
    /\ cached' = TRUE
    /\ load_pc' = "ready"
    /\ runs' = [runs EXCEPT !.user = @ + 1]
    /\ callers' = Return(callers, word_lists')
    /\ UNCHANGED <<oxford_file, epv_file, user_file, remote, skip_llm,
                   after_oxford, after_epv, op, instances, saves, requests>>

(***************************************************************************)
(* Callers of the loader.  get_instance, initialize and the whole load     *)
(* path (load_word_file, the csv reader, add_word_forms_to_map) are        *)
(* coroutines that await no future: the event loop runs no other task      *)
(* while one of them is running, so a caller steps only when no caller is  *)
(* inside load_word_lists.                                                 *)
(***************************************************************************)
NoneLoading == \A d \in DOMAIN callers : callers[d].pc # "loading"

\* "if self.word_lists:" with an empty index taken for no index at all
has_word_lists_nonempty(is_set, wl) == is_set /\ wl.word_map # EmptyMap

\* "if self.word_lists:": a WordLists object is true whatever it holds
has_word_lists(is_set, wl) == is_set

GetInstance(c) ==
    /\ callers[c].pc = "new"
    /\ NoneLoading
    /\ instances' = IF instances = 0 THEN 1 ELSE instances
    /\ callers' = [callers EXCEPT ![c] = Caller("instance", None)]
    /\ UNCHANGED <<oxford_file, epv_file, user_file, remote, skip_llm, load_pc,
                   word_lists, cached, after_oxford, after_epv, op, runs, saves,
                   requests>>

\* the entry of load_word_lists: the cached index is returned, or a new
\* WordLists is made for the three loaders to fill
CallLoadWordLists(c) ==
    /\ callers[c].pc = "instance"
    /\ NoneLoading
    /\ IF has_word_lists(cached, word_lists)
       THEN /\ callers' = [callers EXCEPT ![c] = Caller("done", word_lists)]
            /\ UNCHANGED <<load_pc, word_lists, after_oxford, after_epv>>
       ELSE /\ callers' = [callers EXCEPT ![c] = Caller("loading", None)]
            /\ load_pc' = "start"
            /\ word_lists' = WordLists
            /\ after_oxford' = NotYet
            /\ after_epv' = NotYet
    /\ UNCHANGED <<oxford_file, epv_file, user_file, remote, skip_llm, cached,
                   op, instances, runs, saves, requests>>

(***************************************************************************)
(* save_words_to_user_file, in the steps at which it awaits aiofiles: the  *)
(* file is read and the merged list computed by the task itself; the file  *)
(* is then opened for writing, which empties it, and written and closed,   *)
(* by threads of the executor while the task is suspended.                 *)
(***************************************************************************)
\* a file opened with mode 'w' and not yet written: empty, so json.load raises
Truncated == Corrupt

\* save_words_to_user_file returning False on a file that is not valid JSON
save_outcome_strict(file, words_data) ==
    IF file.state = "corrupt"
    THEN [ok |-> FALSE, file |-> file]
    ELSE [ok |-> TRUE, file |-> save_words_to_user_file(file, words_data)]

\* what save_words_to_user_file is about to do when it reaches aiofiles.open:
\* the "except Exception: return False" clause is reached by no file
\* considered here
save_outcome(file, words_data) ==
    [ok |-> TRUE, file |-> save_words_to_user_file(file, words_data)]

\* a task calling save_words_to_user_file: found is the file it read,
\* updated the file it is about to write, wrote the file as its write left
\* it, ok the value returned; clobbered: another task wrote the file while
\* this one had it open; before_load: it wrote before load_user_words ran
IdleSave ==
    [pc |-> "idle", words_data |-> <<>>, found |-> Missing, updated |-> Missing,
     wrote |-> Missing, ok |-> FALSE, clobbered |-> FALSE, before_load |-> FALSE]

begun_save(words_data, found, r) ==
    [IdleSave EXCEPT !.pc = IF r.ok THEN "opening" ELSE "done",
                     !.words_data = words_data,
                     !.found = found,
                     !.updated = r.file]

SaveBegin(s, words_data) ==
    /\ saves[s].pc = "idle"
    /\ NoneLoading
    /\ saves' = [saves EXCEPT
                    ![s] = begun_save(words_data, user_file,
                                      save_outcome(user_file, words_data))]
    /\ UNCHANGED <<oxford_file, epv_file, user_file, remote, skip_llm, load_pc,
                   word_lists, cached, after_oxford, after_epv, op,
                   instances, runs, callers, requests>>

\* aiofiles.open(user_words_file_path, 'w')
SaveOpen(s) ==
    /\ saves[s].pc = "opening"
    /\ user_file' = Truncated
    /\ saves' = [saves EXCEPT ![s].pc = "open"]
    /\ UNCHANGED <<oxford_file, epv_file, remote, skip_llm, load_pc,
                   word_lists, cached, after_oxford, after_epv, op,
                   instances, runs, callers, requests>>

\* the bytes a write leaves: the list written; or, when another task has
\* written through its own handle since this one opened the file, possibly
\* the tail of the other list after this one
written_files(save) ==
    IF save.clobbered THEN {save.updated, Corrupt} ELSE {save.updated}

\* f.write(json.dumps(updated_data, indent=2)) and the close that flushes it
SaveWrite(s) ==
    /\ saves[s].pc = "open"
    /\ user_file' \in written_files(saves[s])
    /\ saves' = [t \in DOMAIN saves |->
                    IF t = s
                    THEN [saves[s] EXCEPT !.pc = "done",
                                          !.ok = TRUE,
                                          !.wrote = user_file',
                                          !.before_load = (runs.user = 0)]
                    ELSE IF saves[t].pc = "open"
                    THEN [saves[t] EXCEPT !.clobbered = TRUE]
                    ELSE saves[t]]
    /\ UNCHANGED <<oxford_file, epv_file, remote, skip_llm, load_pc,
                   word_lists, cached, after_oxford, after_epv, op,
                   instances, runs, callers, requests>>

(***************************************************************************)
(* Calls on the classifier and the plugin once initialize has returned.    *)
(***************************************************************************)
GetWordLevel(word) ==
    /\ load_pc = "ready"
    /\ op' = [kind |-> "resolve",
              word |-> word,
              info |-> get_word_level(word, word_lists.word_map),
              before |-> word_lists]
    /\ UNCHANGED <<oxford_file, epv_file, user_file, remote, skip_llm, load_pc,
                   word_lists, cached, after_oxford, after_epv,
                   instances, runs, callers, saves, requests>>

\* op' keeps what analyze_word_levels returned and did: raised, result,
\* unknown_words, llm_results, calls, and wl, the WordLists it left
AnalyzeWordLevels(words) ==
    /\ load_pc = "ready"
    /\ op' = [kind |-> "analyze", words |-> words, before |-> word_lists] @@
             analyze_word_levels(words, skip_llm, remote, word_lists)
    /\ word_lists' = op'.wl
    /\ UNCHANGED <<oxford_file, epv_file, user_file, remote, skip_llm, load_pc,
                   cached, after_oxford, after_epv, instances, runs, callers, saves,
                   requests>>

\* A direct call of classifier.classify_unknown_words_with_llm, as the tests
\* of the classifier make it.
ClassifyUnknownWords(unknown_words) ==
    /\ load_pc = "ready"
    /\ op' = [kind |-> "classify", unknown_words |-> unknown_words,
              before |-> word_lists] @@
             classify_unknown_words_with_llm(unknown_words, remote, word_lists)
    /\ word_lists' = op'.wl
    /\ UNCHANGED <<oxford_file, epv_file, user_file, remote, skip_llm, load_pc,
                   cached, after_oxford, after_epv, instances, runs, callers, saves,
                   requests>>

(***************************************************************************)
(* Spec: a plugin initialized on a small data directory, then resolving    *)
(* single words and analyzing word lists.                                  *)
(***************************************************************************)
MaxWords == 2

OxfordSample ==
    File(<< [word |-> "hello", level |-> "A1"],
            [value |-> [word |-> "run", level |-> "A1"]],
            [word |-> "happy", level |-> "a1"],
            [word |-> "nation", level |-> "A2"],
            [word |-> "national", level |-> "B1"] >>)

\* the remotes the plugin is initialized with
PluginRemotes == {"good", "noblock", "omit"}

Init ==
    /\ oxford_file = OxfordSample
    /\ epv_file = Missing
    /\ user_file = Missing
    /\ skip_llm \in BOOLEAN
    /\ remote \in (IF skip_llm THEN {"good"} ELSE PluginRemotes)
    /\ InitLoader

Next ==
    \/ LoadOxfordWords
    \/ LoadEpvWords
    \/ LoadUserWords
    \/ \E word \in ResolveTokens : GetWordLevel(word)
    \/ \E words \in SeqsUpTo(AnalyzeTokens, MaxWords) : AnalyzeWordLevels(words)

Spec == Init /\ [][Next]_vars

(***************************************************************************)
(* SpecLoad: load_word_lists over data directories whose three files are   *)
(* absent, unreadable, or hold up to MaxRows of the entries below.         *)
(***************************************************************************)
MaxRows == 2

OxfordEntries ==
    { [word |-> "hello", level |-> "A1"],
      [value |-> [word |-> "Ice Cream", level |-> "b1"]] }

EpvRows ==
    { <<" Hellos ", "B2">>, <<"icecream", "a2">>, <<"zyx", "c2">> }

UserEntries ==
    { [word |-> "hello", level |-> "C2", explanation |-> "because", source |-> "llm"],
      [word |-> "zyx", level |-> "B2", explanation |-> "because", source |-> "llm"] }

Files(entries) == {Missing, Corrupt} \cup {File(data) : data \in SeqsUpTo(entries, MaxRows)}

\* entries and rows whose level is none of A1..C2
LevelEntries ==
    { [word |-> "cat", level |-> "X9"],
      [word |-> "Dog", level |-> "Unknown"] }

LevelRows ==
    { <<"cat", "x9">>, <<"dog", "unknown">> }

InitLoad ==
    /\ \/ /\ oxford_file \in Files(OxfordEntries)
          /\ epv_file \in Files(EpvRows)
          /\ user_file \in Files(UserEntries)
       \/ /\ oxford_file \in Files(LevelEntries)
          /\ epv_file \in Files(LevelRows)
          /\ user_file \in Files(LevelEntries)
    /\ skip_llm = TRUE
    /\ remote = "good"
    /\ InitLoader

NextLoad ==
    \/ LoadOxfordWords
    \/ LoadEpvWords
    \/ LoadUserWords

SpecLoad == InitLoad /\ [][NextLoad]_vars

(***************************************************************************)
(* SpecBatch: a classifier built on an empty index and asked, once, to     *)
(* classify a list of distinct unknown words.                              *)
(***************************************************************************)
MaxUnknown == 23

MaxOffset == 1

WordPool ==
    << "zyx", "quark", "ombre", "fjord", "glyph", "krill", "nymph", "plinth",
       "sphinx", "tryst", "umbra", "vortex", "wharf", "xenon", "yacht", "zephyr",
       "abyss", "bezel", "cairn", "dirge", "epoch", "fugue", "gavel", "helix",
       "ingot", "joust", "knoll", "lathe", "mirth", "nadir", "ochre", "pique" >>

UnknownLists ==
    {SubSeq(WordPool, s + 1, s + n) : s \in 0..MaxOffset, n \in 0..MaxUnknown}

InitBatch ==
    /\ oxford_file = Missing
    /\ epv_file = Missing
    /\ user_file = Missing
    /\ skip_llm = FALSE
    /\ remote \in Capabilities
    /\ load_pc = "ready"
    /\ word_lists = WordLists
    /\ cached = FALSE
    /\ after_oxford = NotYet
    /\ after_epv = NotYet
    /\ op = NoOp
    /\ instances = 0
    /\ runs = NoRuns
    /\ callers = EmptyMap
    /\ saves = EmptyMap
    /\ requests = EmptyMap

NextBatch ==
    /\ op = NoOp
    /\ \E unknown_words \in UnknownLists : ClassifyUnknownWords(unknown_words)

SpecBatch == InitBatch /\ [][NextBatch]_vars

(***************************************************************************)
(* SpecCache: MaxCallers tasks, each calling get_instance and then         *)
(* load_word_lists on the loader it got, over a data directory that does   *)
(* not change.                                                             *)
(***************************************************************************)
MaxCallers == 2

CacheOxfordFiles == {Missing, Corrupt, OxfordSample}

CacheEpvFiles == {Missing, Corrupt, File(<< <<"zyx", "c2">> >>)}

CacheUserFiles ==
    {Missing, Corrupt,
     File(<< [word |-> "ombre", level |-> "B2", explanation |-> "because",
              source |-> "llm"] >>)}

InitCache ==
    /\ oxford_file \in CacheOxfordFiles
    /\ epv_file \in CacheEpvFiles
    /\ user_file \in CacheUserFiles
    /\ skip_llm = TRUE
    /\ remote = "good"
    /\ load_pc = "idle"
    /\ word_lists = WordLists
    /\ cached = FALSE
    /\ after_oxford = NotYet
    /\ after_epv = NotYet
    /\ op = NoOp
    /\ instances = 0
    /\ runs = NoRuns
    /\ callers = [c \in 1..MaxCallers |-> Caller("new", None)]
    /\ saves = EmptyMap
    /\ requests = EmptyMap

NextCache ==
    \/ \E c \in DOMAIN callers : GetInstance(c)
    \/ \E c \in DOMAIN callers : CallLoadWordLists(c)
    \/ LoadOxfordWords
    \/ LoadEpvWords
    \/ LoadUserWords

SpecCache == InitCache /\ [][NextCache]_vars

(***************************************************************************)
(* SpecSave: two tasks that each save a dictionary of words, and a fresh   *)
(* loader that loads the data directory, whose user file holds up to       *)
(* MaxRows earlier entries.                                                *)
(***************************************************************************)
Savers == {"a", "b"}

SavedEntries ==
    { [word |-> "Zyx", level |-> "B2", explanation |-> "old", source |-> "llm"],
      [word |-> "zyxs", level |-> "C1", explanation |-> "old", source |-> "llm"] }

NewEntries ==
    { <<"zyx", [word |-> "zyx", level |-> "A2", explanation |-> "new",
                source |-> "llm"]>>,
      <<"Ombre", [word |-> "Ombre", level |-> "c2", explanation |-> "new",
                  source |-> "llm"]>> }

\* the words_data of a call: a dict of one or two of the entries above
WordsData ==
    {<<x>> : x \in NewEntries} \cup
    {d \in {<<x, y>> : x \in NewEntries, y \in NewEntries} : d[1] # d[2]}

InitSave ==
    /\ oxford_file = Missing
    /\ epv_file = Missing
    /\ user_file \in Files(SavedEntries)
    /\ skip_llm = TRUE
    /\ remote = "good"
    /\ load_pc = "idle"
    /\ word_lists = WordLists
    /\ cached = FALSE
    /\ after_oxford = NotYet
    /\ after_epv = NotYet
    /\ op = NoOp
    /\ instances = 0
    /\ runs = NoRuns
    /\ callers = [c \in {"fresh"} |-> Caller("new", None)]
    /\ saves = [s \in Savers |-> IdleSave]
    /\ requests = EmptyMap

NextSave ==
    \/ \E s \in Savers, words_data \in WordsData : SaveBegin(s, words_data)
    \/ \E s \in Savers : SaveOpen(s)
    \/ \E s \in Savers : SaveWrite(s)
    \/ \E c \in DOMAIN callers : GetInstance(c)
    \/ \E c \in DOMAIN callers : CallLoadWordLists(c)
    \/ LoadOxfordWords
    \/ LoadEpvWords
    \/ LoadUserWords

SpecSave == InitSave /\ [][NextSave]_vars

(***************************************************************************)
(* SpecNorm: a WordProcessor on its own.  A word is drawn, normalize_word  *)
(* is called on it and then on its own result, or _normalize_inflection is *)
(* called on it.                                                           *)
(***************************************************************************)
NormWords ==
    { "don't", "children's", "happiest", "self-driving",
      "children", "mice", "women", "went", "is", "was", "better", "best", "worst",
      "teacher's", "boss'", "boss's", "james'", "cats'", "dog's",
      "happiness", "classes", "class", "cats", "hello", "Hello", " Hello ",
      "puppies", "boys", "boxes", "churches", "wives", "leaves", "cacti",
      "data", "men", "people", "feet", "studied", "played", "running",
      "flying", "seeing", "walked", "freed", "goes", "stops", "are", "were",
      "has", "took", "nicer", "smaller", "happier", "nicest", "smallest",
      "worse", "more", "less", "zyx", "go", "child", "dr.", "gonna", "it's",
      "well-known", "i'm", "world", "driving" }

\* the word normalize_word has when it reaches "# Handle possessives"
before_possessive(word) ==
    expand_slang(expand_contraction(expand_abbreviation(strip(lower(word)))))

InitNorm ==
    /\ oxford_file = Missing
    /\ epv_file = Missing
    /\ user_file = Missing
    /\ skip_llm = TRUE
    /\ remote = "good"
    /\ load_pc = "idle"
    /\ word_lists = WordLists
    /\ cached = FALSE
    /\ after_oxford = NotYet
    /\ after_epv = NotYet
    /\ op \in {[kind |-> "word", word |-> w] : w \in NormWords}
    /\ instances = 0
    /\ runs = NoRuns
    /\ callers = EmptyMap
    /\ saves = EmptyMap
    /\ requests = EmptyMap

\* normalize_word(op.word); possessive is the word before and after the
\* possessive step
NormalizeWord ==
    /\ op.kind = "word"
    /\ op' = [kind |-> "normalize",
              word |-> op.word,
              possessive |-> [in |-> before_possessive(op.word),
                              out |-> strip_possessive(before_possessive(op.word))],
              result |-> normalize_word(op.word)]
    /\ UNCHANGED <<oxford_file, epv_file, user_file, remote, skip_llm, load_pc,
                   word_lists, cached, after_oxford, after_epv,
                   instances, runs, callers, saves, requests>>

\* normalize_word called on what normalize_word returned
NormalizeAgain ==
    /\ op.kind = "normalize"
    /\ op' = [kind |-> "renormalize",
              word |-> op.word,
              first |-> op.result,
              result |-> normalize_word(op.result)]
    /\ UNCHANGED <<oxford_file, epv_file, user_file, remote, skip_llm, load_pc,
                   word_lists, cached, after_oxford, after_epv,
                   instances, runs, callers, saves, requests>>

\* _normalize_inflection(op.word)
NormalizeInflection ==
    /\ op.kind = "word"
    /\ op' = [kind |-> "inflection",
              word |-> op.word,
              result |-> _normalize_inflection(op.word)]
    /\ UNCHANGED <<oxford_file, epv_file, user_file, remote, skip_llm, load_pc,
                   word_lists, cached, after_oxford, after_epv,
                   instances, runs, callers, saves, requests>>

NextNorm ==
    \/ NormalizeWord
    \/ NormalizeAgain
    \/ NormalizeInflection

SpecNorm == InitNorm /\ [][NextNorm]_vars

(***************************************************************************)
(* SpecLearn: tasks of one event loop that call analyze_word_levels on the *)
(* same plugin, hence on the same classifier and index.  A task gives way  *)
(* to the others only where it awaits the reply of llm_client; the first   *)
(* pass, the formatting of a reply and the loop that updates word_map and  *)
(* cefr_sets contain no await that suspends.  The reply of the remote may  *)
(* differ from one request to the next.                                    *)
(***************************************************************************)
MaxLearnWords == 2

Requests == {"a", "b"}

LearnTokens == {"zyx", "happily"}

LearnRemotes == {"good", "lower"}

LearnLists == {w \in SeqsUpTo(LearnTokens, MaxLearnWords) : w # <<>>}

\* a request: pc is where it is; result and unknown_words are the locals of
\* analyze_word_levels; i and results are the locals of
\* classify_unknown_words_with_llm, and todo is the part of results its
\* update loop has still to go through
Request(pc, llm_client, result, unknown_words) ==
    [pc |-> pc, llm_client |-> llm_client, result |-> result,
     unknown_words |-> unknown_words, i |-> 0, results |-> <<>>, todo |-> <<>>]

\* the task runs on the event loop without awaiting: it is inside the loop
\* "for word, data in results.items()"
\* as if the update loop awaited between two words
holds_loop_never(req) == FALSE

holds_loop(req) == req.pc = "merging"

\* no task other than r is in the middle of a stretch without await
OthersAwait(r) == \A q \in DOMAIN requests \ {r} : ~holds_loop(requests[q])

\* what the first pass leaves of a request
after_first_pass(llm_client, first) ==
    IF first.unknown_words = <<>>
    THEN Request("done", llm_client, first.result, <<>>)
    ELSE Request("waiting", llm_client, first.result, first.unknown_words)

\* analyze_word_levels(words) up to the first await of generate_text
AnalyzeBegin(r, words, llm_client) ==
    /\ load_pc = "ready"
    /\ requests[r].pc = "new"
    /\ OthersAwait(r)
    /\ requests' = [requests EXCEPT ![r] =
           after_first_pass(llm_client,
                            first_pass(words, FALSE, word_lists.word_map, <<>>, <<>>))]
    /\ UNCHANGED <<oxford_file, epv_file, user_file, remote, skip_llm, load_pc,
                   word_lists, cached, after_oxford, after_epv, op,
                   instances, runs, callers, saves>>

\* the request once the batch at offset i has been answered by call
after_batch(req, call) ==
    IF call.raised THEN [req EXCEPT !.pc = "raised"]
    ELSE IF req.i + batch_size < Len(req.unknown_words)
    THEN [req EXCEPT !.i = req.i + batch_size,
                     !.results = DictUpdate(req.results, call.results)]
    ELSE [req EXCEPT !.pc = "merging",
                     !.results = DictUpdate(req.results, call.results),
                     !.todo = DictUpdate(req.results, call.results)]

\* generate_text returns: _classify_word_batch formats the reply, and the
\* next batch is sent or the update loop is entered
BatchReply(r) ==
    /\ requests[r].pc = "waiting"
    /\ OthersAwait(r)
    /\ requests' = [requests EXCEPT ![r] =
           after_batch(requests[r],
                       request(requests[r].llm_client,
                               Slice(requests[r].unknown_words, requests[r].i)))]
    /\ UNCHANGED <<oxford_file, epv_file, user_file, remote, skip_llm, load_pc,
                   word_lists, cached, after_oxford, after_epv, op,
                   instances, runs, callers, saves>>

\* one turn of "for word, data in results.items()"
MergeWord(r) ==
    /\ requests[r].pc = "merging"
    /\ requests[r].todo # <<>>
    /\ OthersAwait(r)
    /\ word_lists' = learn_results(<<Head(requests[r].todo)>>, word_lists)
    /\ requests' = [requests EXCEPT ![r].todo = Tail(requests[r].todo)]
    /\ UNCHANGED <<oxford_file, epv_file, user_file, remote, skip_llm, load_pc,
                   cached, after_oxford, after_epv, op,
                   instances, runs, callers, saves>>

\* classify_unknown_words_with_llm returns results, and analyze_word_levels
\* its result updated with them
AnalyzeReturn(r) ==
    /\ requests[r].pc = "merging"
    /\ requests[r].todo = <<>>
    /\ OthersAwait(r)
    /\ requests' = [requests EXCEPT ![r].pc = "done",
                                    ![r].result = update_known(requests[r].result,
                                                               requests[r].results)]
    /\ UNCHANGED <<oxford_file, epv_file, user_file, remote, skip_llm, load_pc,
                   word_lists, cached, after_oxford, after_epv, op,
                   instances, runs, callers, saves>>

InitLearn ==
    /\ oxford_file = Missing
    /\ epv_file = Missing
    /\ user_file = Missing
    /\ skip_llm = FALSE
    /\ remote = "good"
    /\ load_pc = "ready"
    /\ word_lists = WordLists
    /\ cached = TRUE
    /\ after_oxford = NotYet
    /\ after_epv = NotYet
    /\ op = NoOp
    /\ instances = 1
    /\ runs = NoRuns
    /\ callers = EmptyMap
    /\ saves = EmptyMap
    /\ requests = [r \in Requests |-> Request("new", None, <<>>, <<>>)]

NextLearn ==
    \/ \E r \in Requests, words \in LearnLists, llm_client \in LearnRemotes :
           AnalyzeBegin(r, words, llm_client)
    \/ \E r \in Requests : BatchReply(r)
    \/ \E r \in Requests : MergeWord(r)
    \/ \E r \in Requests : AnalyzeReturn(r)

SpecLearn == InitLearn /\ [][NextLearn]_vars

(***************************************************************************)
(* Properties.  op is the last call and what it returned; op.before is the *)
(* WordLists it found.                                                     *)
(***************************************************************************)
\* the forms of a word in the order resolution is specified to try them
ResolveForms(word) ==
    << Normalized(word),
       process_word(Normalized(word), "lemma"),
       process_word(Normalized(word), "stem"),
       process_word(Normalized(word), "token") >>

\* a word exists in any form: as it is, normalized, or normalized up to spaces
ExistsInAnyForm(word, word_map) ==
    \/ lower(word) \in DOMAIN word_map
    \/ normalize_word(word) \in DOMAIN word_map
    \/ \E k \in DOMAIN word_map :
           replace(k, " ", "") = replace(normalize_word(word), " ", "")

\* the reply to a request is a failure: the call raised, the text holds no
\* {...} block, or the block is not a JSON object that maps every requested
\* word it names to an object whose level is a string
FailedReply(call) ==
    \/ call.response.kind \in {"raise", "noblock", "badjson"}
    \/ /\ call.response.kind = "json"
       /\ \E i \in DOMAIN call.response.body :
              /\ lower(call.response.body[i][1]) \in LowerWords(call.batch)
              /\ IF call.response.body[i][2].isdict
                 THEN Get(call.response.body[i][2].fields, "level", "") = None
                 ELSE TRUE

\* the words an analyzed list holds, lower-cased, each at its first occurrence
RECURSIVE FirstOccurrences(_, _)
FirstOccurrences(words, seen) ==
    IF words = <<>> THEN <<>>
    ELSE IF lower(Head(words)) \in seen THEN FirstOccurrences(Tail(words), seen)
    ELSE <<lower(Head(words))>> \o
         FirstOccurrences(Tail(words), seen \cup {lower(Head(words))})

\* the words the user-learned store holds
StoredWords(file) ==
    IF file.state = "ok"
    THEN {lower(file.data[i].word) : i \in {j \in DOMAIN file.data : "word" \in DOMAIN file.data[j]}}
    ELSE {}

\* the lower-cased keys of a words_data dictionary
NewKeys(words_data) == {lower(words_data[i][1]) : i \in DOMAIN words_data}

\* the entries of words_data that win: for each lower-cased key, the last
NewValues(words_data) ==
    {words_data[i][2] : i \in {j \in DOMAIN words_data :
        \A k \in DOMAIN words_data :
            k > j => lower(words_data[k][1]) # lower(words_data[j][1])}}

\* the words a file holds, lower-cased
FileKeys(file) ==
    IF file.state = "ok"
    THEN {lower(file.data[i].word) : i \in DOMAIN file.data}
    ELSE {}

\* the entries a file holds
FileEntries(file) ==
    IF file.state = "ok" THEN {file.data[i] : i \in DOMAIN file.data} ELSE {}

\* the entries of a file that a save without their word has to keep: for
\* each lower-cased word outside keys, the last entry of the file
KeptEntries(file, keys) ==
    IF file.state = "ok"
    THEN {file.data[i] : i \in {j \in DOMAIN file.data :
             /\ lower(file.data[j].word) \notin keys
             /\ \A k \in DOMAIN file.data :
                    k > j => lower(file.data[k].word) # lower(file.data[j].word)}}
    ELSE {}

\* a source file is missing or unreadable
Failed(file) == file.state \in {"missing", "corrupt"}

\* the <<word, level>> pairs a JSON source file holds
FileWords(file) ==
    IF file.state # "ok" THEN {}
    ELSE {IF "value" \in DOMAIN file.data[i]
          THEN <<file.data[i].value.word, lower(file.data[i].value.level)>>
          ELSE <<file.data[i].word, lower(file.data[i].level)>> : i \in DOMAIN file.data}

\* the <<word, level>> pairs the CSV source file holds
RowWords(file) ==
    IF file.state # "ok" THEN {}
    ELSE {<<lower(strip(file.data[i][1])), lower(strip(file.data[i][2]))>> :
              i \in DOMAIN file.data}

\* C1: once load_word_lists has loaded the user-learned list, every key the
\* primary or the secondary list wrote still holds the entry it held before
\* the user-learned list was loaded.
C1_UserListKeepsEarlierEntries ==
    (load_pc = "ready" /\ after_epv.reached) =>
        \A k \in DOMAIN after_epv.wl.word_map :
            /\ k \in DOMAIN word_lists.word_map
            /\ word_lists.word_map[k] = after_epv.wl.word_map[k]

\* C2: load_epv_words leaves every key that existed before it with the same
\* entry, and each row whose word exists in any form when the row is read is
\* skipped entirely: the index and the buckets stay as they were.
C2_EpvKeepsExistingEntries ==
    after_epv.reached =>
        /\ \A k \in DOMAIN after_oxford.wl.word_map :
               /\ k \in DOMAIN after_epv.wl.word_map
               /\ after_epv.wl.word_map[k] = after_oxford.wl.word_map[k]
        /\ epv_file.state = "ok" =>
               /\ after_epv.wl = load_epv_rows(epv_file.data, after_oxford.wl)
               /\ \A i \in DOMAIN epv_file.data :
                      LET found == load_epv_rows(SubSeq(epv_file.data, 1, i - 1),
                                                 after_oxford.wl)
                          left == load_epv_rows(SubSeq(epv_file.data, 1, i),
                                                after_oxford.wl)
                          word == lower(strip(epv_file.data[i][1]))
                      IN  /\ \A k \in DOMAIN found.word_map :
                                 /\ k \in DOMAIN left.word_map
                                 /\ left.word_map[k] = found.word_map[k]
                          /\ ExistsInAnyForm(word, found.word_map) => left = found

\* C2 witness: "hello" came from the primary list, the row " Hellos " was
\* skipped and the row "zyx" was added.
C2_Witness ==
    /\ after_epv.reached
    /\ epv_file = File(<< <<" Hellos ", "B2">>, <<"zyx", "c2">> >>)
    /\ "hello" \in DOMAIN after_oxford.wl.word_map
    /\ "hellos" \notin DOMAIN after_epv.wl.word_map
    /\ "zyx" \in DOMAIN after_epv.wl.word_map
    /\ after_epv.wl.cefr["b2"] = {}

\* C3: whenever the reply to a batch is a failure, every word of the batch
\* gets level C1 with source default, in the batch's results and in the map
\* returned, and nothing is raised to the caller.
C3_FailedBatchDefaults ==
    op.kind = "classify" =>
        /\ ~op.raised
        /\ \A c \in DOMAIN op.calls :
               FailedReply(op.calls[c]) =>
                   /\ ~op.calls[c].raised
                   /\ DictKeys(op.calls[c].results) = LowerWords(op.calls[c].batch)
                   /\ \A i \in DOMAIN op.calls[c].batch :
                          LET word == lower(op.calls[c].batch[i])
                              entry == [word |-> word, level |-> "C1", source |-> "default"]
                          IN  /\ DictGet(op.calls[c].results, word) = entry
                              /\ word \in DictKeys(op.results)
                              /\ DictGet(op.results, word) = entry

\* C3 witness: 23 words, three requests, each answered without a {...} block
C3_Witness ==
    /\ op.kind = "classify"
    /\ Len(op.unknown_words) = 23
    /\ Len(op.calls) = 3
    /\ \A c \in DOMAIN op.calls : op.calls[c].response.kind = "noblock"

\* C4: when none of the forms of a word is a key of the index, get_word_level
\* returns level unknown with the flag asking for a remote classification,
\* and leaves the index as it was.
C4_NoHitIsUnknown ==
    (op.kind = "resolve" /\ \A i \in 1..4 :
                                ResolveForms(op.word)[i] \notin DOMAIN op.before.word_map) =>
        /\ op.info.level = "unknown"
        /\ "needs_llm_classification" \in DOMAIN op.info
        /\ op.info.needs_llm_classification = TRUE
        /\ word_lists = op.before

\* C4 witness: "zyx" has no form in the index
C4_Witness ==
    /\ op.kind = "resolve"
    /\ op.word = "zyx"
    /\ "zyx" \notin DOMAIN op.before.word_map
    /\ op.info.level = "unknown"

\* C5: get_word_level returns the entry of the first of the normalized,
\* lemma, stem and token forms that is a key of the index.
C5_FirstHitWins ==
    op.kind = "resolve" =>
        \A i \in 1..4 :
            (/\ ResolveForms(op.word)[i] \in DOMAIN op.before.word_map
             /\ \A j \in 1..(i - 1) :
                    ResolveForms(op.word)[j] \notin DOMAIN op.before.word_map) =>
                op.info = op.before.word_map[ResolveForms(op.word)[i]]

\* C5 witness: "happily" misses, its lemma "happy" and its stem "happi" are
\* keys with different entries, and the lemma's entry is returned.
C5_Witness ==
    /\ op.kind = "resolve"
    /\ op.word = "happily"
    /\ "happily" \notin DOMAIN op.before.word_map
    /\ "happy" \in DOMAIN op.before.word_map
    /\ "happi" \in DOMAIN op.before.word_map
    /\ op.before.word_map["happi"] # op.before.word_map["happy"]
    /\ op.info = op.before.word_map["happy"]

\* C6: analyze_word_levels sends to the remote only words of its input that
\* resolve locally to level unknown, and sends nothing when every word
\* resolves locally.
C6_OnlyUnknownWordsAreSent ==
    op.kind = "analyze" =>
        /\ \A c \in DOMAIN op.calls : \A i \in DOMAIN op.calls[c].batch :
               /\ op.calls[c].batch[i] \in LowerWords(op.words)
               /\ lower(get_word_level(op.calls[c].batch[i],
                                       op.before.word_map).level) = "unknown"
        /\ (\A i \in DOMAIN op.words :
                lower(get_word_level(lower(op.words[i]),
                                     op.before.word_map).level) # "unknown")
               => op.calls = <<>>

\* C6 witness: "Hello" resolves locally, "zyx" does not; one request, for "zyx"
C6_Witness ==
    /\ op.kind = "analyze"
    /\ op.words = <<"Hello", "zyx">>
    /\ op.before.word_map["hello"].level = "A1"
    /\ Len(op.calls) = 1
    /\ op.calls[1].batch = <<"zyx">>

C8_UnrecognizedLevelDefaults ==
    op.kind = "classify" =>
        \A c \in DOMAIN op.calls :
            (op.calls[c].response.kind = "json" /\ ~FailedReply(op.calls[c])) =>
                \A i \in DOMAIN op.calls[c].response.body :
                    LET word == lower(op.calls[c].response.body[i][1])
                        level == Get(op.calls[c].response.body[i][2].fields, "level", "")
                    IN  (word \in LowerWords(op.calls[c].batch)
                         /\ lower(level) \notin RecognizedLevels) =>
                            /\ DictGet(op.calls[c].results, word).level = "C1"
                            /\ DictGet(op.calls[c].results, word).source = "default"
                            /\ DictGet(op.calls[c].results, word).explanation =
                                   "level not recognized"

\* C9: the map analyze_word_levels returns has one entry for each distinct
\* lower-cased input word, in the order of the first occurrences.
C9_OneEntryPerDistinctWord ==
    op.kind = "analyze" =>
        /\ Len(op.result) = Len(FirstOccurrences(op.words, {}))
        /\ \A i \in DOMAIN op.result :
               op.result[i][1] = FirstOccurrences(op.words, {})[i]
        /\ DictKeys(op.result) = LowerWords(op.words)

\* C9 witness: "Hello" and "hello" share one entry
C9_Witness ==
    /\ op.kind = "analyze"
    /\ op.words = <<"Hello", "hello">>
    /\ Len(op.result) = 1
    /\ op.result[1][1] = "hello"

\* C10: when analyze_word_levels returns having learned words from the
\* remote, the user-learned store holds each of them.
C10_LearnedWordsArePersisted ==
    (op.kind = "analyze" /\ op.llm_results # <<>>) =>
        \A i \in DOMAIN op.llm_results : op.llm_results[i][1] \in StoredWords(user_file)

C12_LoadIsIdempotent ==
    [][cached =>
          /\ runs = [oxford |-> 1, epv |-> 1, user |-> 1]
          /\ runs' = runs
          /\ word_lists' = word_lists
          /\ \A c \in DOMAIN callers :
                 (callers[c].pc # "done" /\ callers'[c].pc = "done") =>
                     callers'[c].got = word_lists]_vars

\* C12 witness: two calls have returned the index, which the three loaders
\* built in one run each; the index is empty, every file being absent
C12_Witness ==
    /\ cached
    /\ word_lists = WordLists
    /\ \A c \in DOMAIN callers : callers[c] = Caller("done", word_lists)
    /\ Cardinality(DOMAIN callers) >= 2
    /\ runs = [oxford |-> 1, epv |-> 1, user |-> 1]

\* C13: when every caller has returned from load_word_lists, one loader
\* instance has been created, no source loader has run more than once, and
\* every caller got the same index.
C13_ConcurrentCallersLoadOnce ==
    (Cardinality(DOMAIN callers) >= 2
     /\ \A c \in DOMAIN callers : callers[c].pc = "done") =>
        /\ instances = 1
        /\ runs.oxford <= 1 /\ runs.epv <= 1 /\ runs.user <= 1
        /\ \A c, d \in DOMAIN callers : callers[c].got = callers[d].got

\* C14: when one call save_words_to_user_file({w: e}), e having a level of
\* A1..C2, has returned True, no other call has touched the file, and a
\* fresh loader has then loaded the word lists, the index maps w to e.
C14_SavedWordSurfacesOnLoad ==
    \A s \in DOMAIN saves :
        (/\ saves[s].pc = "done"
         /\ saves[s].ok
         /\ saves[s].before_load
         /\ Len(saves[s].words_data) = 1
         /\ \A t \in DOMAIN saves \ {s} : saves[t].pc = "idle"
         /\ load_pc = "ready"
         /\ cached
         /\ lower(saves[s].words_data[1][2].level) \in RecognizedLevels) =>
            /\ lower(saves[s].words_data[1][1]) \in DOMAIN word_lists.word_map
            /\ word_lists.word_map[lower(saves[s].words_data[1][1])] =
                   saves[s].words_data[1][2]

\* C15: a save that returned True, no other task having written the file
\* while it was open, left a file that holds the new entry of every new key,
\* the entry of every word it found whose lower-cased key is not a new key,
\* and one entry for each key.
C15_SaveMergesLastWriteWins ==
    \A s \in DOMAIN saves :
        (saves[s].pc = "done" /\ saves[s].ok /\ ~saves[s].clobbered) =>
            /\ saves[s].wrote.state = "ok"
            /\ NewValues(saves[s].words_data) \subseteq FileEntries(saves[s].wrote)
            /\ KeptEntries(saves[s].found, NewKeys(saves[s].words_data))
                   \subseteq FileEntries(saves[s].wrote)
            /\ Len(saves[s].wrote.data) =
                   Cardinality(NewKeys(saves[s].words_data)
                                   \cup FileKeys(saves[s].found))

\* C15 witness: {"zyx": new} saved over a file holding "Zyx" and "zyxs"
\* replaced the entry of "Zyx" and kept the entry of "zyxs"
C15_Witness ==
    \E s \in DOMAIN saves :
        /\ saves[s].pc = "done"
        /\ saves[s].ok
        /\ ~saves[s].clobbered
        /\ saves[s].found.state = "ok"
        /\ FileKeys(saves[s].found) = {"zyx", "zyxs"}
        /\ NewKeys(saves[s].words_data) = {"zyx"}
        /\ Len(saves[s].wrote.data) = 2
        /\ saves[s].wrote.data[1].explanation = "new"
        /\ saves[s].wrote.data[2].word = "zyxs"

C17_UserFileWritesAreAtomic ==
    (\E s \in DOMAIN saves : saves[s].pc \in {"open", "done"}) =>
        user_file.state = "ok"

\* C18: when each of the three source files is missing or unreadable,
\* load_word_lists returns the fallback index: 12 words, and words at each of
\* the six levels.
C18_FallbackWhenAllSourcesFail ==
    (load_pc = "ready" /\ Failed(oxford_file) /\ Failed(epv_file) /\ Failed(user_file)) =>
        /\ word_lists = get_fallback_lists
        /\ Cardinality(DOMAIN word_lists.word_map) = 12
        /\ \A l \in RecognizedLevels : word_lists.cefr[l] # {}

\* C19: whatever files are missing or malformed, the index load_word_lists
\* returns holds every entry with a level of A1..C2 of every file that could
\* be read: its word is a key of the index (for the secondary list, in one
\* of its forms).
C19_FailedSourceDiscardsNoOther ==
    load_pc = "ready" =>
        /\ \A p \in FileWords(oxford_file) \cup FileWords(user_file) :
               p[2] \in RecognizedLevels => lower(p[1]) \in DOMAIN word_lists.word_map
        /\ \A p \in RowWords(epv_file) :
               p[2] \in RecognizedLevels => ExistsInAnyForm(p[1], word_lists.word_map)

\* C20: a word that the source files hold only with levels that are none of
\* A1..C2, and that is no form of a word held with such a level, is no key of
\* the index and is in no level bucket.
C20_UnrecognizedLevelIsSkipped ==
    LET all == FileWords(oxford_file) \cup RowWords(epv_file) \cup FileWords(user_file)
        valid == {p \in all : p[2] \in RecognizedLevels}
    IN  \A p \in all :
            (/\ p[2] \notin RecognizedLevels
             /\ \A v \in valid : lower(v[1]) # lower(p[1]) /\ Normalized(v[1]) # lower(p[1])
             /\ lower(p[1]) \notin DOMAIN get_fallback_lists.word_map) =>
                /\ lower(p[1]) \notin DOMAIN word_lists.word_map
                /\ \A l \in DOMAIN word_lists.cefr : lower(p[1]) \notin word_lists.cefr[l]

\* C21: normalize_word is idempotent: normalizing the result of
\* normalize_word(w) once more returns that same result.
C21_NormalizeIsIdempotent ==
    op.kind = "renormalize" => op.result = op.first

\* C22: normalize_word("don't") is "do not", normalize_word("children's")
\* is "child", normalize_word("happiest") is "happy" and
\* normalize_word("self-driving") is "self drive".
C22_NormalizeScenario ==
    op.kind = "normalize" =>
        /\ op.word = "don't" => op.result = "do not"
        /\ op.word = "children's" => op.result = "child"
        /\ op.word = "happiest" => op.result = "happy"
        /\ op.word = "self-driving" => op.result = "self drive"

\* the base forms the irregular forms are specified to have
IrregularBase ==
    [w \in {"children", "mice", "women", "went", "is", "was", "better", "best", "worst"} |->
        CASE w = "children" -> "child"
          [] w = "mice" -> "mouse"
          [] w = "women" -> "woman"
          [] w = "went" -> "go"
          [] w \in {"is", "was"} -> "be"
          [] w \in {"better", "best"} -> "good"
          [] w = "worst" -> "bad"]

\* C23: normalize_word maps each irregular inflected form to its base form:
\* children, mice, women, went, is, was, better, best, worst become child,
\* mouse, woman, go, be, be, good, good, bad.
C23_IrregularFormsReachBase ==
    (op.kind = "normalize" /\ op.word \in DOMAIN IrregularBase) =>
        op.result = IrregularBase[op.word]

\* C24: the possessive step removes exactly the marker: a word ending in 's
\* leaves the step without that final 's, a word ending in an apostrophe
\* without that final apostrophe, and nothing else is removed.
C24_PossessiveStripsOnlyTheMarker ==
    op.kind = "normalize" =>
        LET w == op.possessive.in
        IN  /\ endswith(w, "'s") => op.possessive.out = SubSeq(w, 1, Len(w) - 2)
            /\ (endswith(w, "'") /\ ~endswith(w, "'s")) =>
                   op.possessive.out = SubSeq(w, 1, Len(w) - 1)
            /\ (~endswith(w, "'") /\ ~endswith(w, "'s")) => op.possessive.out = w

\* the rules of a category whose pattern matches the word, by position
MatchingRules(word, rules) == {i \in 1..Len(rules) : rule_matches(word, rules[i])}

\* what a category makes of a word: its earliest matching rule applied, or
\* the word itself when none matches
CategoryResult(word, rules) ==
    IF MatchingRules(word, rules) = {} THEN word
    ELSE rule_apply(word, rules[CHOOSE i \in MatchingRules(word, rules) :
                                   \A j \in MatchingRules(word, rules) : i <= j])

\* C25: _normalize_inflection tries plural, then verb, then comparative;
\* within a category only the first matching rule is applied; the first
\* category that changes the word gives the result; a category that leaves
\* the word as it was hands over to the next; a word no rule matches is
\* returned unchanged.
C25_FirstChangingCategoryWins ==
    op.kind = "inflection" =>
        LET plural == CategoryResult(op.word, plural_to_singular)
            verb == CategoryResult(op.word, verb_to_base)
            comparative == CategoryResult(op.word, comparative_to_base)
        IN  /\ plural # op.word => op.result = plural
            /\ (plural = op.word /\ verb # op.word) => op.result = verb
            /\ (plural = op.word /\ verb = op.word) => op.result = comparative
            /\ (/\ MatchingRules(op.word, plural_to_singular) = {}
                /\ MatchingRules(op.word, verb_to_base) = {}
                /\ MatchingRules(op.word, comparative_to_base) = {}) =>
                   op.result = op.word

\* a word no plural rule matches and two verb rules match has been reduced
\* by the earlier of the two
C25_Witness ==
    /\ op.kind = "inflection"
    /\ MatchingRules(op.word, plural_to_singular) = {}
    /\ Cardinality(MatchingRules(op.word, verb_to_base)) >= 2
    /\ op.result # op.word
    /\ op.result = CategoryResult(op.word, verb_to_base)

\* the lower-cased words of a reply that the batch it answers did not hold
ForeignWords(call) ==
    IF call.response.kind = "json"
    THEN {lower(call.response.body[j][1]) : j \in DOMAIN call.response.body}
             \ LowerWords(call.batch)
    ELSE {}

\* C26: a word of a remote response that is not, ignoring case, a word of the
\* request batch is ignored: it has no entry in the batch result, and unless
\* the request asked about it elsewhere it is not returned to the caller and
\* is written neither to the index nor to a level bucket.
C26_ForeignWordsAreIgnored ==
    op.kind = "classify" =>
        \A i \in DOMAIN op.calls : \A w \in ForeignWords(op.calls[i]) :
            /\ w \notin DictKeys(op.calls[i].results)
            /\ w \notin LowerWords(op.unknown_words) =>
                   /\ w \notin DictKeys(op.results)
                   /\ w \notin DOMAIN op.wl.word_map
                   /\ \A l \in DOMAIN op.wl.cefr : w \notin op.wl.cefr[l]

\* a reply held a word nobody asked about, and the words asked about were
\* learned from it
C26_Witness ==
    /\ op.kind = "classify"
    /\ ~op.raised
    /\ \E i \in DOMAIN op.calls :
           /\ ForeignWords(op.calls[i]) # {}
           /\ DictKeys(op.calls[i].results) = LowerWords(op.calls[i].batch)
    /\ DOMAIN op.wl.word_map # {}

\* the update loop of request r has words left to go through
InUpdateLoop(r) == requests[r].pc = "merging" /\ requests[r].todo # <<>>

\* the index after the update loops of the requests in the order first, second
MergedInOrder(first, second) ==
    learn_results(requests[second].results,
                  learn_results(requests[first].results, WordLists))

\* the entries the remote fallback produced for request r
ProducedBy(r) == {requests[r].results[j][2] : j \in DOMAIN requests[r].results}

\* C27: two requests that run concurrently on one classifier and both learn
\* have their index updates serialized: while the update loop of one has
\* words left, the index changes only by that loop's next turn and the
\* other request does not move; and once both have returned, the index and
\* the level buckets are what one loop run wholly after the other leaves,
\* every key holding an entry one of the requests produced.
C27_LearningMergesAreSerialized ==
    /\ [][\A r \in Requests : InUpdateLoop(r) =>
              /\ requests'[r].todo = Tail(requests[r].todo)
              /\ \A q \in Requests \ {r} : requests'[q] = requests[q]]_vars
    /\ []((\A r \in Requests : requests[r].pc = "done") =>
              /\ \E first \in Requests : \E second \in Requests \ {first} :
                     word_lists = MergedInOrder(first, second)
              /\ \A k \in DOMAIN word_lists.word_map :
                     \E r \in Requests : word_lists.word_map[k] \in ProducedBy(r))

\* both requests have returned, each learned two words from a remote that
\* answered it differently, and they learned a word in common
C27_Witness ==
    /\ \A r \in Requests : requests[r].pc = "done" /\ Len(requests[r].results) = 2
    /\ requests["a"].llm_client # requests["b"].llm_client
    /\ DictKeys(requests["a"].results) \cap DictKeys(requests["b"].results) # {}
    /\ ProducedBy("a") \cap ProducedBy("b") = {}

\* C28: every classification request ends resolved: with the remote fallback
\* enabled, every word of the map analyze_word_levels returns has a level
\* among A1..C2 and none is left 'unknown', a requested word that a parsed
\* remote response omits included.
C28_EveryWordEndsResolved ==
    (op.kind = "analyze" /\ ~skip_llm /\ ~op.raised) =>
        \A j \in DOMAIN op.result :
            lower(Get(op.result[j][2], "level", "")) \in RecognizedLevels

\* C29: a word that has been added to the index resolves locally afterwards:
\* get_word_level of a word that a loaded source or the remote-learning path
\* registered under its lower-cased form returns an entry with one of the
\* levels A1..C2, not 'unknown'.
C29_RegisteredWordsResolve ==
    (op.kind = "resolve" /\ lower(op.word) \in DOMAIN op.before.word_map) =>
        lower(Get(op.info, "level", "")) \in RecognizedLevels

\* C30: the level buckets agree with the index in every reachable state: a
\* word is in at most one bucket, and a word in the bucket of level L has an
\* index entry under that word whose level is L.
C30_BucketsAgreeWithIndex ==
    \A l \in DOMAIN word_lists.cefr : \A w \in word_lists.cefr[l] :
        /\ \A other \in DOMAIN word_lists.cefr \ {l} : w \notin word_lists.cefr[other]
        /\ w \in DOMAIN word_lists.word_map
        /\ lower(Get(word_lists.word_map[w], "level", "")) = l

====
